---- MODULE Spec2Model ----
(***************************************************************************)
(* Model of twilight-model's RequestGuildMembers gateway payload and its   *)
(* builder (model/src/gateway/payload/request_guild_members.rs).           *)
(*                                                                         *)
(* The builder is a value that is moved through modifier calls and         *)
(* consumed by one terminal call.  The produced payload is then            *)
(* serialized to a JSON value tree and deserialized back, following the    *)
(* serde attributes on the payload types.                                  *)
(***************************************************************************)
EXTENDS Integers, Sequences, FiniteSets, TLC

(***************************************************************************)
(* Bounds of the model.                                                    *)
(***************************************************************************)
\* longest identifier sequence handed to user_ids
MaxLen == 101
\* every identifier sequence up to this length is tried, whatever its content
SmallLen == 2
\* most modifier calls chained on one builder
MaxCalls == 2

(***************************************************************************)
(* Input domains.                                                          *)
(***************************************************************************)
GuildIdValues == {1, 7}
UserIdValues == {2, 3}
Nonces == {"", "test"}
Queries == {"", "a"}
Limits == {0, 1, 2147483647}
Ids == 0 .. 9

\* Option<T>
None == [some |-> FALSE]
Some(x) == [some |-> TRUE, v |-> x]
is_none(o) == ~o.some
unwrap_or_default(o) == IF o.some THEN o.v ELSE 0

OptLimits == {None} \cup {Some(l) : l \in Limits}

\* identifier sequences: a, b, a, b, ... of length n
Alternating(n, a, b) == [i \in 1 .. n |-> IF i % 2 = 1 THEN a ELSE b]

RECURSIVE SeqsUpTo(_, _)
SeqsUpTo(S, n) ==
    IF n = 0 THEN {<<>>}
    ELSE LET shorter == SeqsUpTo(S, n - 1)
         IN shorter \cup {Append(s, x) : s \in shorter, x \in S}

IdSeqs ==
    SeqsUpTo(UserIdValues, SmallLen)
        \cup {Alternating(n, a, b) : n \in 0 .. MaxLen, a \in UserIdValues, b \in UserIdValues}

(***************************************************************************)
(* The payload model.                                                      *)
(***************************************************************************)
\* the limit of UserIdsError::TooMany
MaxUserIds == 100

\* gateway::opcode::OpCode: the variants, and the wire number of each
OpCode == [Heartbeat |-> "Heartbeat",
           Identify |-> "Identify",
           RequestGuildMembers |-> "RequestGuildMembers"]
OpCode_repr == [Heartbeat |-> 1, Identify |-> 2, RequestGuildMembers |-> 8]

\* enum RequestGuildMemberId<T>
One(id) == [tag |-> "One", val |-> id]
Multiple(ids) == [tag |-> "Multiple", val |-> ids]

\* enum UserIdsError
TooMany(ids) == [tag |-> "TooMany", ids |-> ids]

\* Result<T, E>
Ok(x) == [kind |-> "ok", value |-> x]
Err(e) == [kind |-> "err", error |-> e]
NoResult == [kind |-> "none"]

(***************************************************************************)
(* RequestGuildMembersBuilder.                                             *)
(***************************************************************************)
new_zero_guild(guild_id) == [guild_id |-> 0, nonce |-> None, presences |-> None]

new(guild_id) == [guild_id |-> guild_id, nonce |-> None, presences |-> None]

\* RequestGuildMembers::builder
builder(guild_id) == new(guild_id)

\* Option::get_or_insert instead of Option::replace: the first value stays
_nonce_keep_first(self, n) ==
    IF self.nonce.some THEN self ELSE [self EXCEPT !.nonce = Some(n)]

_nonce(self, n) == [self EXCEPT !.nonce = Some(n)]

nonce(self, n) == _nonce(self, n)

\* rebuilds the builder from its guild and so drops the nonce
presences_fresh(self, p) == [new(self.guild_id) EXCEPT !.presences = Some(p)]

presences(self, p) == [self EXCEPT !.presences = Some(p)]

\* passes the limit through, leaving it absent when none is given
_query_limit_as_given(self, q, limit) ==
    [d |-> [guild_id |-> self.guild_id,
            limit |-> limit,
            nonce |-> self.nonce,
            presences |-> self.presences,
            query |-> Some(q),
            user_ids |-> None],
     op |-> OpCode.RequestGuildMembers]

_query(self, q, limit) ==
    [d |-> [guild_id |-> self.guild_id,
            limit |-> Some(unwrap_or_default(limit)),
            nonce |-> self.nonce,
            presences |-> self.presences,
            query |-> Some(q),
            user_ids |-> None],
     op |-> OpCode.RequestGuildMembers]

query(self, q, limit) == _query(self, q, limit)

\* wraps the identifier in a one-element list
user_id_as_list(self, id) ==
    [d |-> [guild_id |-> self.guild_id,
            limit |-> None,
            nonce |-> self.nonce,
            presences |-> self.presences,
            query |-> None,
            user_ids |-> Some(Multiple(<<id>>))],
     op |-> OpCode.RequestGuildMembers]

\* populates the default limit in identifier mode too
user_id_with_limit(self, id) ==
    [d |-> [guild_id |-> self.guild_id,
            limit |-> Some(0),
            nonce |-> self.nonce,
            presences |-> self.presences,
            query |-> None,
            user_ids |-> Some(One(id))],
     op |-> OpCode.RequestGuildMembers]

user_id(self, id) ==
    [d |-> [guild_id |-> self.guild_id,
            limit |-> None,
            nonce |-> self.nonce,
            presences |-> self.presences,
            query |-> None,
            user_ids |-> Some(One(id))],
     op |-> OpCode.RequestGuildMembers]

\* Vec::dedup: drops an identifier equal to the one before it
dedup(ids) == SelectSeq([i \in 1 .. Len(ids) |-> <<i, ids[i]>>],
                        LAMBDA e : e[1] = 1 \/ ids[e[1] - 1] # e[2])

\* off by one: rejects a sequence of exactly MaxUserIds
_user_ids_ge(self, ids) ==
    IF Len(ids) >= MaxUserIds
    THEN Err(TooMany(ids))
    ELSE Ok([d |-> [guild_id |-> self.guild_id,
                    limit |-> None,
                    nonce |-> self.nonce,
                    presences |-> self.presences,
                    query |-> None,
                    user_ids |-> Some(Multiple(ids))],
             op |-> OpCode.RequestGuildMembers])

\* removes repeated neighbours before building the payload
_user_ids_dedup(self, ids) ==
    IF Len(ids) > MaxUserIds
    THEN Err(TooMany(ids))
    ELSE Ok([d |-> [guild_id |-> self.guild_id,
                    limit |-> None,
                    nonce |-> self.nonce,
                    presences |-> self.presences,
                    query |-> None,
                    user_ids |-> Some(Multiple([i \in 1 .. Len(dedup(ids)) |-> dedup(ids)[i][2]]))],
             op |-> OpCode.RequestGuildMembers])

_user_ids(self, ids) ==
    IF Len(ids) > MaxUserIds
    THEN Err(TooMany(ids))
    ELSE Ok([d |-> [guild_id |-> self.guild_id,
                    limit |-> None,
                    nonce |-> self.nonce,
                    presences |-> self.presences,
                    query |-> None,
                    user_ids |-> Some(Multiple(ids))],
             op |-> OpCode.RequestGuildMembers])

user_ids(self, ids) == _user_ids(self, ids)

(***************************************************************************)
(* Serialization: the JSON value tree and the serde implementations        *)
(* derived for the payload types.                                          *)
(***************************************************************************)
JNull == [t |-> "null"]
JBool(x) == [t |-> "bool", v |-> x]
JNum(x) == [t |-> "num", v |-> x]
JStr(x) == [t |-> "str", v |-> x]
JArr(x) == [t |-> "arr", v |-> x]
JObj(x) == [t |-> "obj", v |-> x]

has_field(obj, k) == k \in DOMAIN obj.v

\* identifiers go on the wire as decimal strings and come back from a
\* decimal string or a number
Id_serialize(id) == JStr(ToString(id))

Id_deserialize(j) ==
    CASE j.t = "num" -> Ok(j.v)
      [] j.t = "str" ->
            IF \E n \in Ids : ToString(n) = j.v
            THEN Ok(CHOOSE n \in Ids : ToString(n) = j.v)
            ELSE Err("invalid id")
      [] OTHER -> Err("invalid type")

OpCode_serialize(op) == JNum(OpCode_repr[op])

OpCode_deserialize(j) ==
    IF j.t = "num" /\ \E o \in DOMAIN OpCode_repr : OpCode_repr[o] = j.v
    THEN Ok(CHOOSE o \in DOMAIN OpCode_repr : OpCode_repr[o] = j.v)
    ELSE Err("invalid opcode")

u64_deserialize(j) == IF j.t = "num" /\ j.v >= 0 THEN Ok(j.v) ELSE Err("invalid type")
String_deserialize(j) == IF j.t = "str" THEN Ok(j.v) ELSE Err("invalid type")
bool_deserialize(j) == IF j.t = "bool" THEN Ok(j.v) ELSE Err("invalid type")

\* #[serde(untagged)]: the value is written as the variant's content
RequestGuildMemberId_serialize(m) ==
    IF m.tag = "One"
    THEN Id_serialize(m.val)
    ELSE JArr([i \in 1 .. Len(m.val) |-> Id_serialize(m.val[i])])

Vec_deserialize(j) ==
    IF j.t = "arr" /\ \A i \in 1 .. Len(j.v) : Id_deserialize(j.v[i]).kind = "ok"
    THEN Ok([i \in 1 .. Len(j.v) |-> Id_deserialize(j.v[i]).value])
    ELSE Err("invalid type")

\* reads a list of one identifier as the single identifier
RequestGuildMemberId_deserialize_collapse(j) ==
    IF Id_deserialize(j).kind = "ok"
    THEN Ok(One(Id_deserialize(j).value))
    ELSE IF Vec_deserialize(j).kind = "ok"
         THEN IF Len(Vec_deserialize(j).value) = 1
              THEN Ok(One(Vec_deserialize(j).value[1]))
              ELSE Ok(Multiple(Vec_deserialize(j).value))
         ELSE Err("data did not match any variant")

\* #[serde(untagged)]: the variants are tried in declaration order
RequestGuildMemberId_deserialize(j) ==
    IF Id_deserialize(j).kind = "ok"
    THEN Ok(One(Id_deserialize(j).value))
    ELSE IF Vec_deserialize(j).kind = "ok"
         THEN Ok(Multiple(Vec_deserialize(j).value))
         ELSE Err("data did not match any variant")

\* the fields of RequestGuildMembersInfo carrying
\* skip_serializing_if = "Option::is_none"
SkippedIfNone == {"limit", "nonce", "presences", "query", "user_ids"}

\* the JSON value of a field that is written
field_value(d, k) ==
    CASE k = "guild_id" -> Id_serialize(d.guild_id)
      [] k = "limit" -> IF is_none(d.limit) THEN JNull ELSE JNum(d.limit.v)
      [] k = "nonce" -> IF is_none(d.nonce) THEN JNull ELSE JStr(d.nonce.v)
      [] k = "presences" -> IF is_none(d.presences) THEN JNull ELSE JBool(d.presences.v)
      [] k = "query" -> IF is_none(d.query) THEN JNull ELSE JStr(d.query.v)
      [] k = "user_ids" ->
            IF is_none(d.user_ids) THEN JNull ELSE RequestGuildMemberId_serialize(d.user_ids.v)

\* limit lacks the skip attribute: an absent limit is written as null
RequestGuildMembersInfo_serialize_null_limit(d) ==
    JObj([k \in {"guild_id", "limit"} \cup {f \in SkippedIfNone : ~is_none(d[f])}
            |-> field_value(d, k)])

RequestGuildMembersInfo_serialize(d) ==
    JObj([k \in {"guild_id"} \cup {f \in SkippedIfNone : ~is_none(d[f])}
            |-> field_value(d, k)])

RequestGuildMembers_serialize(p) ==
    JObj(("d" :> RequestGuildMembersInfo_serialize(p.d)) @@ ("op" :> OpCode_serialize(p.op)))

\* the value of key k, null when the object has no such key: a derived
\* Deserialize reads a missing Option field as it reads null
field(obj, k) == IF has_field(obj, k) THEN obj.v[k] ELSE JNull

\* Option<T> from the JSON value j, r being what T's Deserialize makes of j
Option_deserialize(j, r) ==
    IF j.t = "null" THEN Ok(None)
    ELSE IF r.kind = "ok" THEN Ok(Some(r.value)) ELSE r

RequestGuildMembersInfo_deserialize(j) ==
    IF j.t # "obj" THEN Err("invalid type")
    ELSE IF ~has_field(j, "guild_id") THEN Err("missing field guild_id")
    ELSE LET guild_id == Id_deserialize(j.v["guild_id"])
             limit == Option_deserialize(field(j, "limit"), u64_deserialize(field(j, "limit")))
             nonce_ == Option_deserialize(field(j, "nonce"), String_deserialize(field(j, "nonce")))
             presences_ == Option_deserialize(field(j, "presences"),
                                              bool_deserialize(field(j, "presences")))
             query_ == Option_deserialize(field(j, "query"), String_deserialize(field(j, "query")))
             user_ids_ == Option_deserialize(field(j, "user_ids"),
                                             RequestGuildMemberId_deserialize(field(j, "user_ids")))
         IN IF \A r \in {guild_id.kind, limit.kind, nonce_.kind, presences_.kind,
                         query_.kind, user_ids_.kind} : r = "ok"
            THEN Ok([guild_id |-> guild_id.value,
                     limit |-> limit.value,
                     nonce |-> nonce_.value,
                     presences |-> presences_.value,
                     query |-> query_.value,
                     user_ids |-> user_ids_.value])
            ELSE Err("invalid field")

RequestGuildMembers_deserialize(j) ==
    IF j.t # "obj" THEN Err("invalid type")
    ELSE IF ~has_field(j, "d") THEN Err("missing field d")
    ELSE IF ~has_field(j, "op") THEN Err("missing field op")
    ELSE LET d == RequestGuildMembersInfo_deserialize(j.v["d"])
             op == OpCode_deserialize(j.v["op"])
         IN IF d.kind = "ok" /\ op.kind = "ok"
            THEN Ok([d |-> d.value, op |-> op.value])
            ELSE Err("invalid field")

(***************************************************************************)
(* State.                                                                  *)
(***************************************************************************)
VARIABLES
    current,    \* the live builder, None once a terminal call has consumed it
    created,    \* the guild the current builder was created with
    log,        \* the modifier calls made on the current builder, in order
    last,       \* the terminal call that consumed the builder, with its arguments
    result,     \* what the terminal call returned
    wire,       \* the serialized form of the produced payload, once written
    decoded     \* what deserializing the wire form returned, once read

vars == <<current, created, log, last, result, wire, decoded>>

NoCall == [method |-> "none"]

Init ==
    \E g \in GuildIdValues :
        /\ current = Some(builder(g))
        /\ created = g
        /\ log = <<>>
        /\ last = NoCall
        /\ result = NoResult
        /\ wire = None
        /\ decoded = None

\* RequestGuildMembers::builder(g): a fresh builder replaces whatever was there
Builder(g) ==
    /\ current' = Some(builder(g))
    /\ created' = g
    /\ log' = <<>>
    /\ last' = NoCall
    /\ result' = NoResult
    /\ wire' = None
    /\ decoded' = None

Nonce(n) ==
    /\ current.some
    /\ Len(log) < MaxCalls
    /\ current' = Some(nonce(current.v, n))
    /\ log' = Append(log, [method |-> "nonce", value |-> Some(n)])
    /\ UNCHANGED <<created, last, result, wire, decoded>>

Presences(p) ==
    /\ current.some
    /\ Len(log) < MaxCalls
    /\ current' = Some(presences(current.v, p))
    /\ log' = Append(log, [method |-> "presences", value |-> Some(p)])
    /\ UNCHANGED <<created, last, result, wire, decoded>>

Query(q, limit) ==
    /\ current.some
    /\ result' = Ok(query(current.v, q, limit))
    /\ last' = [method |-> "query", self |-> current.v, query |-> q, limit |-> limit]
    /\ current' = None
    /\ UNCHANGED <<created, log, wire, decoded>>

UserId(id) ==
    /\ current.some
    /\ result' = Ok(user_id(current.v, id))
    /\ last' = [method |-> "user_id", self |-> current.v, user_id |-> id]
    /\ current' = None
    /\ UNCHANGED <<created, log, wire, decoded>>

UserIds(ids) ==
    /\ current.some
    /\ result' = user_ids(current.v, ids)
    /\ last' = [method |-> "user_ids", self |-> current.v, user_ids |-> ids]
    /\ current' = None
    /\ UNCHANGED <<created, log, wire, decoded>>

Serialize ==
    /\ result.kind = "ok"
    /\ wire = None
    /\ wire' = Some(RequestGuildMembers_serialize(result.value))
    /\ UNCHANGED <<current, created, log, last, result, decoded>>

Deserialize ==
    /\ wire.some
    /\ decoded = None
    /\ decoded' = Some(RequestGuildMembers_deserialize(wire.v))
    /\ UNCHANGED <<current, created, log, last, result, wire>>

Next ==
    \/ \E g \in GuildIdValues : Builder(g)
    \/ \E n \in Nonces : Nonce(n)
    \/ \E p \in BOOLEAN : Presences(p)
    \/ \E q \in Queries, limit \in OptLimits : Query(q, limit)
    \/ \E id \in UserIdValues : UserId(id)
    \/ \E ids \in IdSeqs : UserIds(ids)
    \/ Serialize
    \/ Deserialize

Spec == Init /\ [][Next]_vars

(***************************************************************************)
(* Properties.                                                             *)
(***************************************************************************)
\* the value given to the last call of modifier m in the log l, None without one
LastSet(l, m) ==
    LET calls == SelectSeq(l, LAMBDA c : c.method = m)
    IN IF Len(calls) = 0 THEN None ELSE calls[Len(calls)].value

Called(l, m) == \E i \in 1 .. Len(l) : l[i].method = m

Produced == result.kind = "ok"
Payload == result.value.d

\* C1: user_ids(s) fails with TooMany exactly when s has more than 100
\* identifiers, whatever the builder holds; the failure produces no payload
\* and carries s itself, whole and in order.
C1_TooManyIffOver100 ==
    last.method = "user_ids" =>
        /\ result.kind \in {"ok", "err"}
        /\ (result.kind = "err") <=> (Len(last.user_ids) > 100)
        /\ result.kind = "err" =>
            /\ result.error.tag = "TooMany"
            /\ Len(result.error.ids) = Len(last.user_ids)
            /\ result.error.ids = last.user_ids
            /\ DOMAIN result = {"kind", "error"}

C1_Witness ==
    /\ last.method = "user_ids"
    /\ Len(last.user_ids) = 101
    /\ last.user_ids[1] # last.user_ids[2]
    /\ result.kind = "err"
    /\ last.self.nonce.some

\* C2: user_ids(s) with at most 100 identifiers succeeds with user_ids =
\* Multiple(s), order and repetitions kept, and query and limit absent.
C2_MultipleHoldsInput ==
    (last.method = "user_ids" /\ Len(last.user_ids) <= 100) =>
        /\ result.kind = "ok"
        /\ Payload.user_ids = Some(Multiple(last.user_ids))
        /\ is_none(Payload.query)
        /\ is_none(Payload.limit)

C2_Witness ==
    /\ last.method = "user_ids"
    /\ Len(last.user_ids) = 100
    /\ last.user_ids[1] = last.user_ids[2]
    /\ Produced
    /\ Payload.user_ids.v.tag = "Multiple"

\* C3: query(q, l) always succeeds; the payload has query = q, limit = l
\* when l is given and limit = 0 when it is not, and no user_ids.
C3_QueryPayload ==
    last.method = "query" =>
        /\ result.kind = "ok"
        /\ Payload.query = Some(last.query)
        /\ Payload.limit.some
        /\ last.limit.some => Payload.limit.v = last.limit.v
        /\ ~last.limit.some => Payload.limit.v = 0
        /\ is_none(Payload.user_ids)

C3_Witness ==
    /\ last.method = "query"
    /\ last.query = ""
    /\ last.limit = None
    /\ Produced
    /\ Payload.limit = Some(0)

\* C4: user_id(u) always succeeds with user_ids = One(u), never a list of
\* one, and query and limit absent.
C4_SingleIsOne ==
    last.method = "user_id" =>
        /\ result.kind = "ok"
        /\ Payload.user_ids.some
        /\ Payload.user_ids.v.tag = "One"
        /\ Payload.user_ids.v.val = last.user_id
        /\ is_none(Payload.query)
        /\ is_none(Payload.limit)

C4_Witness ==
    /\ last.method = "user_id"
    /\ Produced
    /\ Payload.user_ids = Some(One(last.user_id))
    /\ Len(log) > 0

\* C5: every produced payload has exactly one of query and user_ids, and
\* has limit exactly when it has query.
C5_OneSelectionMode ==
    Produced =>
        /\ Payload.query.some # Payload.user_ids.some
        /\ Payload.limit.some <=> Payload.query.some

C5_Witness ==
    /\ Produced
    /\ last.method = "user_id"
    /\ Called(log, "nonce")
    /\ Called(log, "presences")
    /\ ~Payload.limit.some

\* C6: the payload's nonce and presences are the arguments of the last
\* nonce call and of the last presences call made on the builder; setting
\* a field again replaces the earlier value.
C6_LastSetWins ==
    /\ current.some =>
        /\ current.v.nonce = LastSet(log, "nonce")
        /\ current.v.presences = LastSet(log, "presences")
    /\ Produced =>
        /\ Payload.nonce = LastSet(log, "nonce")
        /\ Payload.presences = LastSet(log, "presences")

C6_Witness ==
    /\ Produced
    /\ Len(log) >= 2
    /\ log[1].method = "nonce"
    /\ log[2].method = "nonce"
    /\ log[1].value # log[2].value
    /\ Payload.nonce = log[2].value

ModifierStep(m) ==
    /\ current.some
    /\ current'.some
    /\ Len(log') = Len(log) + 1
    /\ log'[Len(log')].method = m

C7_Frame ==
    /\ ModifierStep("nonce") =>
        /\ current'.v.presences = current.v.presences
        /\ current'.v.guild_id = current.v.guild_id
    /\ ModifierStep("presences") =>
        /\ current'.v.nonce = current.v.nonce
        /\ current'.v.guild_id = current.v.guild_id

C7_Carried ==
    Produced =>
        /\ is_none(Payload.nonce) <=> ~Called(log, "nonce")
        /\ is_none(Payload.presences) <=> ~Called(log, "presences")
        /\ Payload.nonce = last.self.nonce
        /\ Payload.presences = last.self.presences

\* C7: a nonce call leaves presences and guild_id alone and a presences
\* call leaves nonce and guild_id alone; a payload lacks nonce (presences)
\* exactly when nonce (presences) was never called, and every terminal
\* method hands over the builder's two fields as they are.
C7_ModifiersTouchOwnField == []C7_Carried /\ [][C7_Frame]_vars

C7_Witness ==
    /\ Produced
    /\ Len(log) >= 2
    /\ log[1].method = "nonce"
    /\ log[2].method = "presences"
    /\ Payload.nonce = log[1].value
    /\ Payload.presences = log[2].value

\* C8: deserializing the serialized payload gives back the payload, in all
\* three modes; a Multiple of one identifier comes back as Multiple and a
\* One as One.
C8_RoundTrip ==
    decoded.some =>
        /\ decoded.v.kind = "ok"
        /\ decoded.v.value = result.value

C8_Witness ==
    /\ decoded.some
    /\ last.method = "user_ids"
    /\ Len(last.user_ids) = 1
    /\ decoded.v.kind = "ok"
    /\ decoded.v.value.d.user_ids.v.tag = "Multiple"

Body == wire.v.v["d"]

\* C9: the serialized body holds a field exactly when the payload has it:
\* limit and query in query mode only (limit also when it is 0), user_ids
\* in identifier mode only, nonce and presences only when set; no field is
\* written as null.
C9_AbsentFieldsOmitted ==
    wire.some =>
        /\ \A k \in {"limit", "nonce", "presences", "query", "user_ids"} : has_field(Body, k) <=> Payload[k].some
        /\ \A k \in DOMAIN Body.v : Body.v[k].t # "null"
        /\ has_field(Body, "limit") <=> last.method = "query"
        /\ has_field(Body, "query") <=> last.method = "query"
        /\ has_field(Body, "user_ids") <=> last.method \in {"user_id", "user_ids"}
        /\ has_field(Body, "nonce") <=> Called(log, "nonce")
        /\ has_field(Body, "presences") <=> Called(log, "presences")

C9_Witness ==
    /\ wire.some
    /\ last.method = "query"
    /\ last.limit = None
    /\ has_field(Body, "limit")
    /\ Body.v["limit"] = JNum(0)
    /\ DOMAIN Body.v = {"guild_id", "limit", "query"}

\* C10: every produced payload has the RequestGuildMembers opcode and the
\* guild the builder was created with, and the builder keeps that guild
\* through every modifier call.
C10_OpAndGuildFixed ==
    /\ current.some => current.v.guild_id = created
    /\ Produced =>
        /\ result.value.op = OpCode.RequestGuildMembers
        /\ Payload.guild_id = created

C10_Witness ==
    /\ Produced
    /\ Len(log) >= 2
    /\ created = 7
    /\ Payload.guild_id = 7
    /\ result.value.op = "RequestGuildMembers"

====
